---- MODULE Spec2Model ----
(***************************************************************************)
(* esql: a parameterized SQL statement builder (src/src/query.rs).         *)
(*                                                                         *)
(* A Rust String is modelled as a sequence of tokens; a token is a TLA+    *)
(* string standing for the characters the code pushes in one piece.  The   *)
(* placeholder marker `?` is the token "?".  push_str / insert_str / `+`   *)
(* on strings are sequence concatenation.  Vec<Type> is a sequence of      *)
(* integers.                                                               *)
(***************************************************************************)
EXTENDS Integers, Sequences, FiniteSets, TLC

VARIABLES
    pc,        \* position of the client program: which value it holds
    ty,        \* the expression type being composed: "Where" or "Having"
    input,     \* arguments of the pending where_in / raw_in call; for the
               \* driver, the Type value to encode
    stack,     \* Where / Having values under composition (top = last); for a
               \* staged builder, the calls chained onto it so far
    tree,      \* history: for each stack entry, the operations that built it
    query,     \* the Query under assembly: Vec<Fragment>; for a staged
               \* builder, its stage with its text and arguments
    result,    \* what Query::build returned
    rendered   \* the statement handed to the driver: format, text, args

vars == <<pc, ty, input, stack, tree, query, result, rendered>>

(***************************************************************************)
(* Bounds                                                                  *)
(***************************************************************************)
MaxLeaves == 4      \* leaf expressions held on the stack
MaxNots   == 1      \* applications of `!` among the stack entries
MaxFrags  == 3      \* fragments in a Query
MaxIn     == 3      \* values passed to where_in / raw_in
MaxCalls  == 3      \* calls chained onto a staged builder

(***************************************************************************)
(* Text helpers                                                            *)
(***************************************************************************)
MARK == "?"

Count(text, toks) == Cardinality({i \in DOMAIN text : text[i] \in toks})

count_of_markers(text) == Count(text, {MARK})

RECURSIVE Flatten(_)
Flatten(ss) == IF ss = <<>> THEN <<>> ELSE Head(ss) \o Flatten(Tail(ss))

\* str::repeat
RECURSIVE repeat(_, _)
repeat(s, n) == IF n = 0 THEN <<>> ELSE s \o repeat(s, n - 1)

\* str::trim_end_matches: strips every trailing occurrence of the pattern
RECURSIVE trim_end_matches(_, _)
trim_end_matches(s, c) ==
    IF s # <<>> /\ s[Len(s)] = c
    THEN trim_end_matches(SubSeq(s, 1, Len(s) - 1), c)
    ELSE s

(***************************************************************************)
(* ArgString and its conversions                                           *)
(***************************************************************************)
Args(v) == v

ArgString(raw, args) == [raw |-> raw, args |-> Args(args)]

wrapped(self) == [self EXCEPT !.raw = <<"(">> \o self.raw \o <<")">>]

\* impl From<T: Trusted> for ArgString
From(value) == ArgString(value, <<>>)

\* impl Into<ArgString> for (T, A1)
Into1(self) == ArgString(self[1], <<self[2]>>)

\* impl Into<ArgString> for (T, A1, A2)
Into2(self) == ArgString(self[1], <<self[2], self[3]>>)

\* impl Into<ArgString> for (T, A1, A2, A3)
Into3(self) == ArgString(self[1], <<self[2], self[3], self[4]>>)

\* `impl Into<ArgString>` dispatch on the shape of the argument
into(fragment) ==
    CASE Len(fragment) = 1 -> From(fragment[1])
      [] Len(fragment) = 2 -> Into1(fragment)
      [] Len(fragment) = 3 -> Into2(fragment)
      [] Len(fragment) = 4 -> Into3(fragment)

\* ArgString + ArgString that forgets to append the other side's arguments
ArgString_add_keeps_own_args(self, other) ==
    [raw |-> self.raw \o other.raw, args |-> self.args]

\* impl Add for ArgString
ArgString_add(self, other) ==
    [raw |-> self.raw \o other.raw, args |-> self.args \o other.args]

\* ArgString + &str that puts the string in front of the text
ArgString_add_str_in_front(self, other) == [self EXCEPT !.raw = other \o self.raw]

\* impl Add<&str> for ArgString
ArgString_add_str(self, other) == [self EXCEPT !.raw = self.raw \o other]

(***************************************************************************)
(* Where / Having                                                          *)
(***************************************************************************)
LogicalOp == {"And", "Or"}

Where(op, inner) == [op |-> op, inner |-> inner]

Having(op, inner) == [op |-> op, inner |-> inner]

where(fragment) == Where("And", into(fragment))

wh(fragment) == where(fragment)

\* where_in without the early return for an empty value list
where_in_no_empty_case(column, values) ==
    LET args == values
    IN  Where("And",
              ArgString(<<column>> \o <<" IN (">>
                          \o trim_end_matches(repeat(<<"?", ",">>, Len(args)), ",")
                          \o <<")">>,
                        args))

\* where_in that leaves the trailing comma of the repeated "?,"
where_in_trailing_comma(column, values) ==
    LET args == values
    IN  IF args = <<>>
        THEN where(<< <<"1=0">> >>)
        ELSE Where("And",
                   ArgString(<<column>> \o <<" IN (">>
                               \o repeat(<<"?", ",">>, Len(args))
                               \o <<")">>,
                             args))

where_in(column, values) ==
    LET args == values
    IN  IF args = <<>>
        THEN where(<< <<"1=0">> >>)
        ELSE Where("And",
                   ArgString(<<column>> \o <<" IN (">>
                               \o trim_end_matches(repeat(<<"?", ",">>, Len(args)), ",")
                               \o <<")">>,
                             args))

wh_in(column, values) == where_in(column, values)

having(fragment) == Having("And", into(fragment))

\* Where & Where that does not wrap an Or-tagged right operand
Where_bitand_rhs_bare(self, rhs) ==
    Where("And",
          CASE self.op = "And" ->
                 ArgString_add(ArgString_add_str(self.inner, <<" AND ">>), rhs.inner)
            [] self.op = "Or" ->
                 ArgString_add(ArgString_add_str(wrapped(self.inner), <<" AND ">>), rhs.inner))

\* Where & Where that does not wrap an Or-tagged left operand
Where_bitand_lhs_bare(self, rhs) ==
    Where("And",
          CASE rhs.op = "And" ->
                 ArgString_add(ArgString_add_str(self.inner, <<" AND ">>), rhs.inner)
            [] rhs.op = "Or" ->
                 ArgString_add(ArgString_add_str(self.inner, <<" AND ">>), wrapped(rhs.inner)))

\* impl BitAnd for Where
Where_bitand(self, rhs) ==
    Where("And",
          CASE self.op = "And" /\ rhs.op = "And" ->
                 ArgString_add(ArgString_add_str(self.inner, <<" AND ">>), rhs.inner)
            [] self.op = "And" /\ rhs.op = "Or" ->
                 ArgString_add(ArgString_add_str(self.inner, <<" AND ">>), wrapped(rhs.inner))
            [] self.op = "Or" /\ rhs.op = "And" ->
                 ArgString_add(ArgString_add_str(wrapped(self.inner), <<" AND ">>), rhs.inner)
            [] self.op = "Or" /\ rhs.op = "Or" ->
                 ArgString_add(ArgString_add_str(wrapped(self.inner), <<" AND ">>),
                               wrapped(rhs.inner)))

\* impl Add for Where
Where_add(self, other) == Where_bitand(self, other)

\* Where | Where that tags its result And
Where_bitor_tags_and(self, rhs) ==
    Where("And", ArgString_add(ArgString_add_str(self.inner, <<" OR ">>), rhs.inner))

\* impl BitOr for Where
Where_bitor(self, rhs) ==
    Where("Or", ArgString_add(ArgString_add_str(self.inner, <<" OR ">>), rhs.inner))

\* !Where that resets the operator tag
Where_not_resets_op(self) ==
    Where("And", [self.inner EXCEPT !.raw = <<"NOT (">> \o self.inner.raw \o <<")">>])

\* impl Not for Where
Where_not(self) ==
    [self EXCEPT !.inner.raw = <<"NOT (">> \o self.inner.raw \o <<")">>]

\* Having & Having that never wraps its operands
Having_bitand_bare(self, rhs) ==
    Having("And", ArgString_add(ArgString_add_str(self.inner, <<" AND ">>), rhs.inner))

\* impl BitAnd for Having
Having_bitand(self, rhs) ==
    Having("And",
           CASE self.op = "And" /\ rhs.op = "And" ->
                  ArgString_add(ArgString_add_str(self.inner, <<" AND ">>), rhs.inner)
             [] self.op = "And" /\ rhs.op = "Or" ->
                  ArgString_add(ArgString_add_str(self.inner, <<" AND ">>), wrapped(rhs.inner))
             [] self.op = "Or" /\ rhs.op = "And" ->
                  ArgString_add(ArgString_add_str(wrapped(self.inner), <<" AND ">>), rhs.inner)
             [] self.op = "Or" /\ rhs.op = "Or" ->
                  ArgString_add(ArgString_add_str(wrapped(self.inner), <<" AND ">>),
                                wrapped(rhs.inner)))

\* impl Add for Having
Having_add(self, other) == Having_bitand(self, other)

\* impl BitOr for Having
Having_bitor(self, rhs) ==
    Having("Or", ArgString_add(ArgString_add_str(self.inner, <<" OR ">>), rhs.inner))

\* impl Not for Having
Having_not(self) ==
    [self EXCEPT !.inner.raw = <<"NOT (">> \o self.inner.raw \o <<")">>]

(***************************************************************************)
(* Fragment and Query                                                      *)
(***************************************************************************)
Fragment(kind, f) == [kind |-> kind, f |-> f]

\* the ArgString a fragment carries (the match of Fragment::is_empty)
inner_of(frag) ==
    CASE frag.kind = "Select" -> frag.f
      [] frag.kind = "From"   -> frag.f
      [] frag.kind = "Where"  -> frag.f.inner
      [] frag.kind = "Having" -> frag.f.inner
      [] frag.kind = "Raw"    -> frag.f

\* is_empty that also asks for an empty argument list
is_empty_without_args(frag) ==
    inner_of(frag).raw = <<>> /\ inner_of(frag).args = <<>>

is_empty(frag) == inner_of(frag).raw = <<>>

Query(frags) == frags

raw(fragment) == Query(<<Fragment("Raw", into(fragment))>>)

select(fragment) == Query(<<Fragment("Select", into(fragment))>>)

from(fragment) == Query(<<Fragment("From", into(fragment))>>)

raw_in(fragment, values) ==
    LET args == values
    IN  Query(<<Fragment("Raw",
                  ArgString(<<fragment>> \o <<" IN (">>
                              \o trim_end_matches(repeat(<<"?", ",">>, Len(args)), ",")
                              \o <<")">>,
                            args))>>)

\* Query + Query that pushes only the first fragment of the other Query
Query_add_first_only(self, other) == Append(self, Head(other))

\* impl Add for Query
Query_add(self, other) == self \o other

\* impl Add<T: Into<ArgString>> for Query
Query_add_raw(self, other) == Append(self, Fragment("Raw", into(other)))

\* impl Add<Where> for Query
Query_add_where(self, other) == Append(self, Fragment("Where", other))

\* impl Add<Having> for Query
Query_add_having(self, other) == Append(self, Fragment("Having", other))

(***************************************************************************)
(* Query::build                                                            *)
(***************************************************************************)
build_init ==
    [buffer |-> <<>>, args |-> <<>>,
     visited_select |-> FALSE, visited_from |-> FALSE,
     visited_where |-> FALSE, visited_having |-> FALSE]

\* the Select arm putting the fragment's arguments in front
build_Select_args_first(st, f) ==
    IF ~st.visited_select
    THEN [st EXCEPT !.buffer = @ \o <<"SELECT ">> \o f.raw,
                    !.visited_select = TRUE,
                    !.args = f.args \o @]
    ELSE [st EXCEPT !.buffer = @ \o <<",">> \o f.raw,
                    !.args = f.args \o @]

\* the Fragment::Select arm
build_Select(st, f) ==
    IF ~st.visited_select
    THEN [st EXCEPT !.buffer = @ \o <<"SELECT ">> \o f.raw,
                    !.visited_select = TRUE,
                    !.args = @ \o f.args]
    ELSE [st EXCEPT !.buffer = @ \o <<",">> \o f.raw,
                    !.args = @ \o f.args]

\* the Fragment::From arm
build_From(st, f) ==
    IF ~st.visited_from
    THEN [st EXCEPT !.buffer = @ \o <<" FROM ">> \o f.raw,
                    !.visited_from = TRUE,
                    !.args = @ \o f.args]
    ELSE [st EXCEPT !.buffer = @ \o <<",">> \o f.raw,
                    !.args = @ \o f.args]

\* the Where arm that never records the visit
build_Where_no_visit(st, f) ==
    IF ~st.visited_where
    THEN IF f.op = "And"
         THEN [st EXCEPT !.buffer = @ \o <<" WHERE ">> \o f.inner.raw,
                         !.args = @ \o f.inner.args]
         ELSE [st EXCEPT !.buffer = @ \o <<" WHERE ">> \o <<"(">>
                                     \o f.inner.raw \o <<")">>,
                         !.args = @ \o f.inner.args]
    ELSE st

\* the Where arm that leaves a later Or-tagged fragment bare
build_Where_later_bare(st, f) ==
    IF ~st.visited_where
    THEN IF f.op = "And"
         THEN [st EXCEPT !.buffer = @ \o <<" WHERE ">> \o f.inner.raw,
                         !.visited_where = TRUE,
                         !.args = @ \o f.inner.args]
         ELSE [st EXCEPT !.buffer = @ \o <<" WHERE ">> \o <<"(">>
                                     \o f.inner.raw \o <<")">>,
                         !.visited_where = TRUE,
                         !.args = @ \o f.inner.args]
    ELSE [st EXCEPT !.buffer = @ \o <<" AND ">> \o f.inner.raw,
                    !.args = @ \o f.inner.args]

\* the Fragment::Where arm
build_Where(st, f) ==
    IF ~st.visited_where
    THEN IF f.op = "And"
         THEN [st EXCEPT !.buffer = @ \o <<" WHERE ">> \o f.inner.raw,
                         !.visited_where = TRUE,
                         !.args = @ \o f.inner.args]
         ELSE [st EXCEPT !.buffer = @ \o <<" WHERE ">> \o <<"(">>
                                     \o f.inner.raw \o <<")">>,
                         !.visited_where = TRUE,
                         !.args = @ \o f.inner.args]
    ELSE IF f.op = "And"
         THEN [st EXCEPT !.buffer = @ \o <<" AND ">> \o f.inner.raw,
                         !.args = @ \o f.inner.args]
         ELSE [st EXCEPT !.buffer = @ \o <<" AND ", "(">>
                                     \o f.inner.raw \o <<")">>,
                         !.args = @ \o f.inner.args]

\* the Fragment::Having arm
build_Having(st, f) ==
    IF ~st.visited_having
    THEN IF f.op = "And"
         THEN [st EXCEPT !.buffer = @ \o <<" HAVING ">> \o f.inner.raw,
                         !.visited_having = TRUE,
                         !.args = @ \o f.inner.args]
         ELSE [st EXCEPT !.buffer = @ \o <<" HAVING ">> \o <<"(">>
                                     \o f.inner.raw \o <<")">>,
                         !.visited_having = TRUE,
                         !.args = @ \o f.inner.args]
    ELSE IF f.op = "And"
         THEN [st EXCEPT !.buffer = @ \o <<" AND ">> \o f.inner.raw,
                         !.args = @ \o f.inner.args]
         ELSE [st EXCEPT !.buffer = @ \o <<" AND ", "(">>
                                     \o f.inner.raw \o <<")">>,
                         !.args = @ \o f.inner.args]

\* the Raw arm that puts the fragment in front of the buffer
build_Raw_in_front(st, f) ==
    [st EXCEPT !.buffer = f.raw \o <<" ">> \o @,
               !.args = f.args \o @]

\* the Fragment::Raw arm
build_Raw(st, f) ==
    [st EXCEPT !.buffer = @ \o <<" ">> \o f.raw,
               !.args = @ \o f.args]

\* the body of `for frag in self.0`
build_frag(st, frag) ==
    IF is_empty(frag) THEN st
    ELSE CASE frag.kind = "Select" -> build_Select(st, frag.f)
           [] frag.kind = "From"   -> build_From(st, frag.f)
           [] frag.kind = "Where"  -> build_Where(st, frag.f)
           [] frag.kind = "Having" -> build_Having(st, frag.f)
           [] frag.kind = "Raw"    -> build_Raw(st, frag.f)

RECURSIVE build_loop(_, _)
build_loop(st, frags) ==
    IF frags = <<>> THEN st
    ELSE build_loop(build_frag(st, Head(frags)), Tail(frags))

\* build that returns an error for a text whose markers do not match
build_checks_markers(self) ==
    LET st == build_loop(build_init, self)
    IN  [ok |-> count_of_markers(st.buffer) = Len(st.args),
         text |-> st.buffer, args |-> Args(st.args)]

\* Ok((buffer, Args(args)))
build(self) ==
    LET st == build_loop(build_init, self)
    IN  [ok |-> TRUE, text |-> st.buffer, args |-> Args(st.args)]

(***************************************************************************)
(* Placeholder rendering (ArgFormat).  The generic markers of a built      *)
(* text are located by their offsets and emitted either verbatim or as     *)
(* $1, $2, ... in source order.                                            *)
(***************************************************************************)
ArgFormat == {"QuestionMark", "Indexed"}

\* the offsets at which placeholders occur
offsets(text) == {i \in DOMAIN text : text[i] = MARK}

\* rendering that numbers the markers from 0
render_from_zero(text, format) ==
    [i \in DOMAIN text |->
        IF i \in offsets(text)
        THEN IF format = "Indexed"
             THEN "$" \o ToString(Cardinality({j \in offsets(text) : j < i}))
             ELSE MARK
        ELSE text[i]]

render(text, format) ==
    [i \in DOMAIN text |->
        IF i \in offsets(text)
        THEN IF format = "Indexed"
             THEN "$" \o ToString(Cardinality({j \in offsets(text) : j <= i}))
             ELSE MARK
        ELSE text[i]]

(***************************************************************************)
(* Composition history: the tree of operations that built an expression,   *)
(* with nested applications of the same binary operator merged (AND and    *)
(* OR are associative).                                                    *)
(***************************************************************************)
Atom(text) == [op |-> "ATOM", atom |-> text, kids |-> <<>>]

Node(op, kids) ==
    [op |-> op, atom |-> <<>>,
     kids |-> Flatten([i \in DOMAIN kids |->
                          IF kids[i].op = op THEN kids[i].kids ELSE <<kids[i]>>])]

NotNode(kid) == [op |-> "NOT", atom |-> <<>>, kids |-> <<kid>>]

(***************************************************************************)
(* Inputs                                                                  *)
(***************************************************************************)
\* the k-th fragment a caller passes to where / wh / having: a text of its
\* own with one argument, with two arguments, or with none
ExprLeaf(k) ==
    CASE k % 3 = 1 -> << <<"c" \o ToString(k) \o " = ", "?">>, k >>
      [] k % 3 = 2 -> << <<"d" \o ToString(k) \o " = ", "?", " + ", "?">>, 10 * k, 10 * k + 1 >>
      [] k % 3 = 0 -> << <<"e" \o ToString(k) \o " = 4">> >>

Columns == {"users.id", "contacts.id"}

InValues == {10, 20, 30}

RECURSIVE SeqsUpTo(_, _)
SeqsUpTo(S, n) ==
    IF n = 0 THEN {<<>>}
    ELSE LET shorter == SeqsUpTo(S, n - 1)
         IN  shorter \cup {Append(q, x) : q \in shorter, x \in S}

NoInput == [column |-> "", values |-> <<>>]

\* arguments a caller passes to select
SelectLeaves ==
    { << <<"x + ", "?">>, 1 >>, << <<>> >> }

\* arguments a caller passes to from
FromLeaves ==
    { << <<"f(", "?", ",", "?", ")">>, 2, 3 >>, << <<>> >> }

\* arguments a caller passes to raw / Query + T: the third has a marker and
\* no argument, the fourth an argument and no text
RawLeaves ==
    { << <<"LIMIT ", "?", ",", "?", ",", "?">>, 4, 5, 6 >>,
      << <<"m = ", "?">> >>,
      << <<>>, 7 >> }

\* Where values a caller adds to a Query
WherePool ==
    { where(<< <<"bar = ", "?">>, 1 >>),
      Where_bitor(where(<< <<"d = ", "?">>, 10 >>), where(<< <<"e != ", "?">>, 20 >>)),
      where_in("users.id", <<10, 20>>),
      where(<< <<>>, 7 >>) }

\* Having values a caller adds to a Query
HavingPool ==
    { having(<< <<"n > ", "?">>, 8 >>),
      Having_bitor(having(<< <<"h">> >>), having(<< <<"k = ", "?">>, 9 >>)),
      having(<< <<>> >>) }

NoResult == [ok |-> FALSE, text |-> <<>>, args |-> <<>>]

NoRender == [format |-> "", text |-> <<>>, args |-> <<>>]

(***************************************************************************)
(* Bound guards                                                            *)
(***************************************************************************)
RECURSIVE StackCount(_, _)
StackCount(st, toks) ==
    IF st = <<>> THEN 0
    ELSE Count(Head(st).inner.raw, toks) + StackCount(Tail(st), toks)

StackLeaves == Len(stack) + StackCount(stack, {" AND ", " OR "})

StackNots == StackCount(stack, {"NOT ("})

(***************************************************************************)
(* Composing Where / Having expressions                                    *)
(***************************************************************************)
Push(e, t) ==
    /\ stack' = Append(stack, e)
    /\ tree' = Append(tree, t)

Binary(e, t) ==
    LET n == Len(stack)
    IN  /\ stack' = Append(SubSeq(stack, 1, n - 2), e)
        /\ tree' = Append(SubSeq(tree, 1, n - 2), t)

Unary(e, t) ==
    LET n == Len(stack)
    IN  /\ stack' = [stack EXCEPT ![n] = e]
        /\ tree' = [tree EXCEPT ![n] = t]

Lhs == stack[Len(stack) - 1]
Rhs == stack[Len(stack)]
LhsTree == tree[Len(tree) - 1]
RhsTree == tree[Len(tree)]

CallWhere ==
    /\ pc = "expr" /\ ty = "Where" /\ StackLeaves < MaxLeaves
    /\ \E l \in {ExprLeaf(StackLeaves + 1)} : Push(where(l), Atom(l[1]))
    /\ UNCHANGED <<pc, ty, input, query, result, rendered>>

CallWh ==
    /\ pc = "expr" /\ ty = "Where" /\ StackLeaves < MaxLeaves
    /\ \E l \in {ExprLeaf(StackLeaves + 1)} : Push(wh(l), Atom(l[1]))
    /\ UNCHANGED <<pc, ty, input, query, result, rendered>>

CallHaving ==
    /\ pc = "expr" /\ ty = "Having" /\ StackLeaves < MaxLeaves
    /\ \E l \in {ExprLeaf(StackLeaves + 1)} : Push(having(l), Atom(l[1]))
    /\ UNCHANGED <<pc, ty, input, query, result, rendered>>

WhereBitAnd ==
    /\ pc = "expr" /\ ty = "Where" /\ Len(stack) >= 2
    /\ Binary(Where_bitand(Lhs, Rhs), Node("AND", <<LhsTree, RhsTree>>))
    /\ UNCHANGED <<pc, ty, input, query, result, rendered>>

WhereAdd ==
    /\ pc = "expr" /\ ty = "Where" /\ Len(stack) >= 2
    /\ Binary(Where_add(Lhs, Rhs), Node("AND", <<LhsTree, RhsTree>>))
    /\ UNCHANGED <<pc, ty, input, query, result, rendered>>

WhereBitOr ==
    /\ pc = "expr" /\ ty = "Where" /\ Len(stack) >= 2
    /\ Binary(Where_bitor(Lhs, Rhs), Node("OR", <<LhsTree, RhsTree>>))
    /\ UNCHANGED <<pc, ty, input, query, result, rendered>>

WhereNot ==
    /\ pc = "expr" /\ ty = "Where" /\ Len(stack) >= 1 /\ StackNots < MaxNots
    /\ Unary(Where_not(Rhs), NotNode(RhsTree))
    /\ UNCHANGED <<pc, ty, input, query, result, rendered>>

HavingBitAnd ==
    /\ pc = "expr" /\ ty = "Having" /\ Len(stack) >= 2
    /\ Binary(Having_bitand(Lhs, Rhs), Node("AND", <<LhsTree, RhsTree>>))
    /\ UNCHANGED <<pc, ty, input, query, result, rendered>>

HavingAdd ==
    /\ pc = "expr" /\ ty = "Having" /\ Len(stack) >= 2
    /\ Binary(Having_add(Lhs, Rhs), Node("AND", <<LhsTree, RhsTree>>))
    /\ UNCHANGED <<pc, ty, input, query, result, rendered>>

HavingBitOr ==
    /\ pc = "expr" /\ ty = "Having" /\ Len(stack) >= 2
    /\ Binary(Having_bitor(Lhs, Rhs), Node("OR", <<LhsTree, RhsTree>>))
    /\ UNCHANGED <<pc, ty, input, query, result, rendered>>

HavingNot ==
    /\ pc = "expr" /\ ty = "Having" /\ Len(stack) >= 1 /\ StackNots < MaxNots
    /\ Unary(Having_not(Rhs), NotNode(RhsTree))
    /\ UNCHANGED <<pc, ty, input, query, result, rendered>>

InitExpr ==
    /\ pc = "expr"
    /\ ty \in {"Where", "Having"}
    /\ input = NoInput
    /\ stack = <<>>
    /\ tree = <<>>
    /\ query = <<>>
    /\ result = NoResult
    /\ rendered = NoRender

NextExpr ==
    \/ CallWhere \/ CallWh \/ CallHaving
    \/ WhereBitAnd \/ WhereAdd \/ WhereBitOr \/ WhereNot
    \/ HavingBitAnd \/ HavingAdd \/ HavingBitOr \/ HavingNot

SpecExpr == InitExpr /\ [][NextExpr]_vars

(***************************************************************************)
(* The IN helpers: a caller draws a column and a value sequence, calls     *)
(* where_in / wh_in and adds the predicate to a query, or calls raw_in,    *)
(* and builds.                                                             *)
(***************************************************************************)
CallWhereIn ==
    /\ pc = "start"
    /\ LET w == where_in(input.column, input.values)
       IN  Push(w, Atom(w.inner.raw))
    /\ pc' = "expr"
    /\ UNCHANGED <<ty, input, query, result, rendered>>

CallWhIn ==
    /\ pc = "start"
    /\ LET w == wh_in(input.column, input.values)
       IN  Push(w, Atom(w.inner.raw))
    /\ pc' = "expr"
    /\ UNCHANGED <<ty, input, query, result, rendered>>

CallRawIn ==
    /\ pc = "start"
    /\ query' = Query_add(query, raw_in(input.column, input.values))
    /\ pc' = "query"
    /\ UNCHANGED <<ty, input, stack, tree, result, rendered>>

\* query + w for the Where value just composed
AddComposed ==
    /\ pc = "expr" /\ ty = "Where" /\ Len(stack) = 1 /\ query # <<>>
    /\ query' = Query_add_where(query, stack[1])
    /\ stack' = <<>>
    /\ tree' = <<>>
    /\ pc' = "query"
    /\ UNCHANGED <<ty, input, result, rendered>>

Build ==
    /\ pc = "query"
    /\ result' = build(query)
    /\ pc' = "built"
    /\ UNCHANGED <<ty, input, stack, tree, query, rendered>>

\* Query::build(format) of the staged API: build, then render the markers
Render ==
    /\ pc = "built"
    /\ \E format \in ArgFormat :
         rendered' = [format |-> format,
                      text |-> render(result.text, format),
                      args |-> result.args]
    /\ pc' = "rendered"
    /\ UNCHANGED <<ty, input, stack, tree, query, result>>

InitIn ==
    /\ pc = "start"
    /\ ty = "Where"
    /\ input \in [column : Columns, values : SeqsUpTo(InValues, MaxIn)]
    /\ stack = <<>>
    /\ tree = <<>>
    /\ query \in {Query_add(select(<< <<"*">> >>), from(<< <<"contacts">> >>)),
                  raw(<< <<"SELECT * FROM users WHERE">> >>)}
    /\ result = NoResult
    /\ rendered = NoRender

NextIn == CallWhereIn \/ CallWhIn \/ CallRawIn \/ AddComposed \/ Build

SpecIn == InitIn /\ [][NextIn]_vars

(***************************************************************************)
(* Assembling a Query from fragments and building it                       *)
(***************************************************************************)
AddSelect ==
    /\ pc = "query" /\ Len(query) < MaxFrags
    /\ \E l \in SelectLeaves : query' = Query_add(query, select(l))
    /\ UNCHANGED <<pc, ty, input, stack, tree, result, rendered>>

AddFrom ==
    /\ pc = "query" /\ Len(query) < MaxFrags
    /\ \E l \in FromLeaves : query' = Query_add(query, from(l))
    /\ UNCHANGED <<pc, ty, input, stack, tree, result, rendered>>

AddRawQuery ==
    /\ pc = "query" /\ Len(query) < MaxFrags
    /\ \E l \in RawLeaves : query' = Query_add(query, raw(l))
    /\ UNCHANGED <<pc, ty, input, stack, tree, result, rendered>>

AddRaw ==
    /\ pc = "query" /\ Len(query) < MaxFrags
    /\ \E l \in RawLeaves : query' = Query_add_raw(query, l)
    /\ UNCHANGED <<pc, ty, input, stack, tree, result, rendered>>

AddWhere ==
    /\ pc = "query" /\ Len(query) < MaxFrags
    /\ \E w \in WherePool : query' = Query_add_where(query, w)
    /\ UNCHANGED <<pc, ty, input, stack, tree, result, rendered>>

AddHaving ==
    /\ pc = "query" /\ Len(query) < MaxFrags
    /\ \E h \in HavingPool : query' = Query_add_having(query, h)
    /\ UNCHANGED <<pc, ty, input, stack, tree, result, rendered>>

InitQuery ==
    /\ pc = "query"
    /\ ty = "Where"
    /\ input = NoInput
    /\ stack = <<>>
    /\ tree = <<>>
    /\ query \in {select(l) : l \in SelectLeaves}
                   \cup {from(l) : l \in FromLeaves}
                   \cup {raw(l) : l \in RawLeaves}
    /\ result = NoResult
    /\ rendered = NoRender

NextQuery ==
    \/ AddSelect \/ AddFrom \/ AddRawQuery \/ AddRaw \/ AddWhere \/ AddHaving
    \/ Build \/ Render

SpecQuery == InitQuery /\ [][NextQuery]_vars

(***************************************************************************)
(* The staged builder (spec 4.3, 4.4; used by tests/query.rs and           *)
(* database/pg.rs): query(text) starts a statement in stage Initial; wh,   *)
(* and, or, having and `+` append to its text and arguments and move it    *)
(* along the stages; build(format) renders the markers.  An Expr carries   *)
(* the operator that last combined it ("None" for a single fragment).      *)
(***************************************************************************)
Stages == <<"Initial", "Where", "Having", "Suffix">>

StageRank(stage) == CHOOSE k \in DOMAIN Stages : Stages[k] = stage

Expr(op, inner) == [op |-> op, inner |-> inner]

expr(fragment) == Expr("None", into(fragment))

\* the side of a join: parenthesized when its own operator differs from op
Expr_side(e, op) == IF e.op \in {"None", op} THEN e.inner ELSE wrapped(e.inner)

Expr_and(self, other) ==
    Expr("And", ArgString_add(ArgString_add_str(Expr_side(self, "And"), <<" AND ">>),
                              Expr_side(other, "And")))

Expr_or(self, other) ==
    Expr("Or", ArgString_add(ArgString_add_str(Expr_side(self, "Or"), <<" OR ">>),
                             Expr_side(other, "Or")))

in_expr(column, values) ==
    IF values = <<>>
    THEN expr(<< <<"1=0">> >>)
    ELSE Expr("None",
              ArgString(<<column>> \o <<" IN (">>
                          \o trim_end_matches(repeat(<<"?", ",">>, Len(values)), ",")
                          \o <<")">>,
                        values))

StagedOps == {"add", "wh", "and", "or", "having"}

\* method availability where wh can be called again on a Where-stage builder
legal_wh_twice(op, stage) ==
    CASE op = "add"    -> TRUE
      [] op = "wh"     -> stage \in {"Initial", "Where"}
      [] op = "and"    -> stage = "Where"
      [] op = "or"     -> stage = "Where"
      [] op = "having" -> stage \in {"Initial", "Where"}

\* method availability per stage
legal(op, stage) ==
    CASE op = "add"    -> TRUE
      [] op = "wh"     -> stage = "Initial"
      [] op = "and"    -> stage = "Where"
      [] op = "or"     -> stage = "Where"
      [] op = "having" -> stage \in {"Initial", "Where"}

\* stage transitions where `+` leaves the stage as it is
next_stage_add_stays(op, stage) ==
    CASE op = "add"    -> stage
      [] op = "wh"     -> "Where"
      [] op = "and"    -> "Where"
      [] op = "or"     -> "Where"
      [] op = "having" -> "Having"

\* the stage a builder is in after op
next_stage(op, stage) ==
    CASE op = "add"    -> IF stage = "Initial" THEN "Initial" ELSE "Suffix"
      [] op = "wh"     -> "Where"
      [] op = "and"    -> "Where"
      [] op = "or"     -> "Where"
      [] op = "having" -> "Having"

Staged(stage, inner) == [stage |-> stage, inner |-> inner]

Staged_query(fragment) == Staged("Initial", into(fragment))

Staged_add(self, fragment) ==
    Staged(next_stage("add", self.stage),
           ArgString_add(ArgString_add_str(self.inner, <<" ">>), into(fragment)))

Staged_wh(self, e) ==
    Staged(next_stage("wh", self.stage),
           ArgString_add(ArgString_add_str(self.inner, <<" WHERE ">>), e.inner))

\* and() that appends an OR-rooted expression without parentheses
Staged_and_bare(self, e) ==
    Staged(next_stage("and", self.stage),
           ArgString_add(ArgString_add_str(self.inner, <<" AND ">>), e.inner))

Staged_and(self, e) ==
    Staged(next_stage("and", self.stage),
           ArgString_add(ArgString_add_str(self.inner, <<" AND ">>), Expr_side(e, "And")))

Staged_or(self, e) ==
    Staged(next_stage("or", self.stage),
           ArgString_add(ArgString_add_str(self.inner, <<" OR ">>), Expr_side(e, "Or")))

Staged_having(self, e) ==
    Staged(next_stage("having", self.stage),
           ArgString_add(ArgString_add_str(self.inner, <<" HAVING ">>), e.inner))

Staged_build(self, format) ==
    [format |-> format, text |-> render(self.inner.raw, format), args |-> self.inner.args]

\* arguments a caller passes to query
StagedQueries ==
    { << <<"SELECT a,b,c FROM foobar">> >>,
      << <<"SELECT x + ", "?", " FROM test">>, 3 >> }

\* arguments a caller passes to `+`
StagedLeaves ==
    { << <<"JOIN countries ON countries.id = users.country_id">> >>,
      << <<"LIMIT ", "?">>, 5 >> }

\* expressions a caller passes to wh / and / or / having, each with the
\* composition that built it
ExprPool ==
    { [e |-> expr(<< <<"bar = ", "?">>, 1 >>), t |-> Atom(<<"bar = ", "?">>)],
      [e |-> Expr_or(expr(<< <<"d = ", "?">>, 10 >>), expr(<< <<"e != ", "?">>, 20 >>)),
       t |-> Node("OR", <<Atom(<<"d = ", "?">>), Atom(<<"e != ", "?">>)>>)],
      [e |-> Expr_and(expr(<< <<"h">> >>), expr(<< <<"k = ", "?">>, 9 >>)),
       t |-> Node("AND", <<Atom(<<"h">>), Atom(<<"k = ", "?">>)>>)],
      [e |-> in_expr("contacts.id", <<>>), t |-> Atom(<<"1=0">>)] }

\* the calls chained onto the builder so far
Calls == Len(stack)

Called(op, q) ==
    /\ query' = q
    /\ stack' = Append(stack, op)

StagedAdd ==
    /\ pc = "staged" /\ Calls < MaxCalls /\ legal("add", query.stage)
    /\ \E l \in StagedLeaves : Called("add", Staged_add(query, l))
    /\ UNCHANGED <<pc, ty, input, tree, result, rendered>>

StagedWh ==
    /\ pc = "staged" /\ Calls < MaxCalls /\ legal("wh", query.stage)
    /\ \E x \in ExprPool :
          /\ Called("wh", Staged_wh(query, x.e))
          /\ tree' = <<x.t>>
    /\ UNCHANGED <<pc, ty, input, result, rendered>>

StagedAnd ==
    /\ pc = "staged" /\ Calls < MaxCalls /\ legal("and", query.stage)
    /\ \E x \in ExprPool :
          /\ Called("and", Staged_and(query, x.e))
          /\ tree' = <<Node("AND", <<tree[1], x.t>>)>>
    /\ UNCHANGED <<pc, ty, input, result, rendered>>

StagedOr ==
    /\ pc = "staged" /\ Calls < MaxCalls /\ legal("or", query.stage)
    /\ \E x \in ExprPool :
          /\ Called("or", Staged_or(query, x.e))
          /\ tree' = <<Node("OR", <<tree[1], x.t>>)>>
    /\ UNCHANGED <<pc, ty, input, result, rendered>>

StagedHaving ==
    /\ pc = "staged" /\ Calls < MaxCalls /\ legal("having", query.stage)
    /\ \E x \in ExprPool : Called("having", Staged_having(query, x.e))
    /\ UNCHANGED <<pc, ty, input, tree, result, rendered>>

StagedBuild ==
    /\ pc = "staged"
    /\ \E format \in ArgFormat : rendered' = Staged_build(query, format)
    /\ pc' = "rendered"
    /\ UNCHANGED <<ty, input, stack, tree, query, result>>

InitStaged ==
    /\ pc = "staged"
    /\ ty = "Where"
    /\ input = NoInput
    /\ stack = <<>>
    /\ tree = <<>>
    /\ query \in {Staged_query(l) : l \in StagedQueries}
    /\ result = NoResult
    /\ rendered = NoRender

NextStaged ==
    \/ StagedAdd \/ StagedWh \/ StagedAnd \/ StagedOr \/ StagedHaving \/ StagedBuild

SpecStaged == InitStaged /\ [][NextStaged]_vars

(***************************************************************************)
(* Handing an integer argument to PostgreSQL (src/src/database/pg.rs).  An *)
(* integer is its bytes, least significant first, in two's complement at   *)
(* the width of its type; isize and usize are 64 bits wide.                *)
(***************************************************************************)
IntVariants ==
    {"Int8", "Int16", "Int32", "Int64", "Isize",
     "UInt8", "UInt16", "UInt32", "UInt64", "Usize"}

\* bytes of the variant's Rust type
Width(variant) ==
    CASE variant \in {"Int8", "UInt8"}   -> 1
      [] variant \in {"Int16", "UInt16"} -> 2
      [] variant \in {"Int32", "UInt32"} -> 4
      [] variant \in {"Int64", "Isize", "UInt64", "Usize"} -> 8

Signed(variant) == variant \in {"Int8", "Int16", "Int32", "Int64", "Isize"}

Type(variant, bytes) == [variant |-> variant, bytes |-> bytes]

\* Rust `as` between integer types: extend by the source's sign, keep the
\* low bytes of the target's width
as_cast(bytes, signed, width) ==
    LET fill == IF signed /\ bytes[Len(bytes)] >= 128 THEN 255 ELSE 0
    IN  [i \in 1..width |-> IF i <= Len(bytes) THEN bytes[i] ELSE fill]

\* the Rust integer whose to_sql is called: its signedness and bytes
to_sql(self) ==
    CASE self.variant = "Int8"   -> [signed |-> TRUE, bytes |-> self.bytes]
      [] self.variant = "Int16"  -> [signed |-> TRUE, bytes |-> self.bytes]
      [] self.variant = "Int32"  -> [signed |-> TRUE, bytes |-> self.bytes]
      [] self.variant = "Int64"  -> [signed |-> TRUE, bytes |-> self.bytes]
      [] self.variant = "Isize"  -> [signed |-> TRUE, bytes |-> as_cast(self.bytes, TRUE, 8)]
      [] self.variant = "UInt8"  -> [signed |-> TRUE, bytes |-> as_cast(self.bytes, FALSE, 2)]
      [] self.variant = "UInt16" -> [signed |-> FALSE, bytes |-> as_cast(self.bytes, FALSE, 4)]
      [] self.variant = "UInt32" -> [signed |-> FALSE, bytes |-> self.bytes]
      [] self.variant = "UInt64" -> [signed |-> FALSE, bytes |-> as_cast(self.bytes, FALSE, 4)]
      [] self.variant = "Usize"  -> [signed |-> FALSE, bytes |-> as_cast(self.bytes, FALSE, 4)]

\* byte values an argument is made of
ByteValues == {0, 1, 255}

ToSql ==
    /\ pc = "arg"
    /\ rendered' = [format |-> "Indexed", text |-> <<>>, args |-> <<to_sql(input)>>]
    /\ pc' = "sent"
    /\ UNCHANGED <<ty, input, stack, tree, query, result>>

InitPg ==
    /\ pc = "arg"
    /\ ty = "Where"
    /\ input \in {Type(v, b) : <<v, b>> \in
                     UNION {{v} \X [1..Width(v) -> ByteValues] : v \in IntVariants}}
    /\ stack = <<>>
    /\ tree = <<>>
    /\ query = <<>>
    /\ result = NoResult
    /\ rendered = NoRender

NextPg == ToSql

SpecPg == InitPg /\ [][NextPg]_vars

(***************************************************************************)
(* Reading a text with SQL precedence: NOT binds tighter than AND, AND     *)
(* tighter than OR, parentheses are explicit.                              *)
(***************************************************************************)
Openers == {"(", "NOT (", " IN ("}

\* Depths(text, 1, 0)[i]: the number of groups open before token i
RECURSIVE Depths(_, _, _)
Depths(text, i, d) ==
    IF i > Len(text) THEN <<>>
    ELSE <<d>> \o Depths(text, i + 1,
                         IF text[i] \in Openers THEN d + 1
                         ELSE IF text[i] = ")" THEN d - 1 ELSE d)

TopLevel(text, tok) ==
    LET ds == Depths(text, 1, 0)
    IN  {i \in DOMAIN text : text[i] = tok /\ ds[i] = 0}

RECURSIVE SplitAt(_, _)
SplitAt(text, ps) ==
    IF ps = {} THEN <<text>>
    ELSE LET p == CHOOSE x \in ps : \A y \in ps : x <= y
         IN  <<SubSeq(text, 1, p - 1)>>
               \o SplitAt(SubSeq(text, p + 1, Len(text)), {q - p : q \in ps \ {p}})

\* text is one group: opened by its first token and closed by its last
Grouped(text, opener) ==
    /\ Len(text) >= 2
    /\ text[1] = opener
    /\ text[Len(text)] = ")"
    /\ LET ds == Depths(text, 1, 0)
       IN  ds[Len(text)] = 1 /\ \A i \in 2..Len(text) : ds[i] >= 1

RECURSIVE ParseOr(_), ParseAnd(_), ParseUnary(_)
ParseOr(text) ==
    LET ps == TopLevel(text, " OR ")
        parts == SplitAt(text, ps)
    IN  IF ps = {} THEN ParseAnd(text)
        ELSE Node("OR", [i \in DOMAIN parts |-> ParseAnd(parts[i])])

ParseAnd(text) ==
    LET ps == TopLevel(text, " AND ")
        parts == SplitAt(text, ps)
    IN  IF ps = {} THEN ParseUnary(text)
        ELSE Node("AND", [i \in DOMAIN parts |-> ParseUnary(parts[i])])

ParseUnary(text) ==
    IF Grouped(text, "NOT (")
    THEN NotNode(ParseOr(SubSeq(text, 2, Len(text) - 1)))
    ELSE IF Grouped(text, "(")
    THEN ParseOr(SubSeq(text, 2, Len(text) - 1))
    ELSE Atom(text)

(***************************************************************************)
(* C2  Precedence-safe grouping under AND: when two expressions are joined *)
(* with `&`, every operand tagged Or is wrapped in parentheses, every      *)
(* operand tagged And is left as it is, the texts are joined with " AND ", *)
(* the arguments are appended and the result is tagged And.                *)
(***************************************************************************)
Parenthesized(e) ==
    IF e.op = "Or" THEN <<"(">> \o e.inner.raw \o <<")">> ELSE e.inner.raw

AndStep ==
    /\ Len(stack') = Len(stack) - 1
    /\ tree'[Len(tree')].op = "AND"

C2_AndGrouping ==
    [][AndStep =>
         LET r == stack'[Len(stack')]
         IN  /\ r.op = "And"
             /\ r.inner.raw = Parenthesized(Lhs) \o <<" AND ">> \o Parenthesized(Rhs)
             /\ r.inner.args = Lhs.inner.args \o Rhs.inner.args]_vars

\* (x OR y) AND z AND w: the Or operand in parentheses, the And operand bare
C2_Witness ==
    /\ stack # <<>>
    /\ LET t == tree[Len(tree)]
           e == stack[Len(stack)]
       IN  /\ t.op = "AND" /\ Len(t.kids) = 3
           /\ t.kids[1].op = "OR" /\ t.kids[2].op = "ATOM" /\ t.kids[3].op = "ATOM"
           /\ e.inner.raw[1] = "("
           /\ Count(e.inner.raw, {"(", ")"}) = 2
           /\ Count(e.inner.raw, {" AND "}) = 2

(***************************************************************************)
(* C3  For every expression built from atomic leaves by and, or and not,   *)
(* the text read with SQL precedence has the grouping of the composition   *)
(* tree that built it.  Every expression is on top of the stack when an    *)
(* operation returns it, and is not changed below the top.                 *)
(***************************************************************************)
C3_TextMatchesTree ==
    stack # <<>> => ParseOr(Rhs.inner.raw) = RhsTree

\* NOT (a OR b) AND c has been returned, rendered with its parentheses
C3_Witness ==
    /\ stack # <<>>
    /\ RhsTree.op = "AND" /\ Len(RhsTree.kids) = 2
    /\ RhsTree.kids[1].op = "NOT" /\ RhsTree.kids[1].kids[1].op = "OR"
    /\ RhsTree.kids[2].op = "ATOM"
    /\ Rhs.inner.raw[1] = "(" /\ Rhs.inner.raw[2] = "NOT ("

(***************************************************************************)
(* Shared vocabulary of the Query claims                                   *)
(***************************************************************************)
Aligned(b) == count_of_markers(b.raw) = Len(b.args)

AllAligned == \A i \in DOMAIN query : Aligned(inner_of(query[i]))

Built == pc \in {"built", "rendered"}

IsPrefix(s, t) == Len(s) <= Len(t) /\ SubSeq(t, 1, Len(s)) = s

IsSuffix(s, t) == Len(s) <= Len(t) /\ SubSeq(t, Len(t) - Len(s) + 1, Len(t)) = s

Boolean(kind) == kind \in {"Where", "Having"}

Keyword(kind) ==
    CASE kind = "Select" -> "SELECT "
      [] kind = "From"   -> " FROM "
      [] kind = "Where"  -> " WHERE "
      [] kind = "Having" -> " HAVING "

Joiner(kind) == IF Boolean(kind) THEN " AND " ELSE ","

\* an earlier fragment of the same kind was rendered
Earlier(q, i) ==
    \E j \in 1..(i - 1) : q[j].kind = q[i].kind /\ inner_of(q[j]).raw # <<>>

\* what fragment i contributes to the text
Piece(q, i) ==
    LET b == inner_of(q[i])
        body == IF Boolean(q[i].kind) /\ q[i].f.op = "Or"
                THEN <<"(">> \o b.raw \o <<")">>
                ELSE b.raw
    IN  IF b.raw = <<>> THEN <<>>
        ELSE IF q[i].kind = "Raw" THEN <<" ">> \o body
        ELSE IF Earlier(q, i) THEN <<Joiner(q[i].kind)>> \o body
        ELSE <<Keyword(q[i].kind)>> \o body

ExpectedText(q) == Flatten([i \in DOMAIN q |-> Piece(q, i)])

ExpectedArgs(q) ==
    Flatten([i \in DOMAIN q |->
                IF inner_of(q[i]).raw = <<>> THEN <<>> ELSE inner_of(q[i]).args])

(***************************************************************************)
(* C1  Placeholder alignment, as stated: every buffer (an ArgString made   *)
(* by a conversion, a Where/Having, a built Query) has as many `?` markers *)
(* as arguments.                                                           *)
(***************************************************************************)
C1_AlignedAlways ==
    /\ AllAligned
    /\ Built => count_of_markers(result.text) = Len(result.args)

(***************************************************************************)
(* C1 (amended)  Alignment is preserved, not established: when every       *)
(* buffer put into a Query has as many markers as arguments, so has every  *)
(* concatenation and every &, | and ! composition of them, and so has the  *)
(* text and argument list returned by build.                               *)
(***************************************************************************)
C1_AlignmentPreserved ==
    AllAligned =>
      /\ Built => count_of_markers(result.text) = Len(result.args)
      /\ \A i, j \in DOMAIN query :
            /\ Aligned(ArgString_add(inner_of(query[i]), inner_of(query[j])))
            /\ Aligned(wrapped(inner_of(query[i])))
            /\ (query[i].kind = "Where" /\ query[j].kind = "Where") =>
                  /\ Aligned(Where_bitand(query[i].f, query[j].f).inner)
                  /\ Aligned(Where_add(query[i].f, query[j].f).inner)
                  /\ Aligned(Where_bitor(query[i].f, query[j].f).inner)
                  /\ Aligned(Where_not(query[i].f).inner)
            /\ (query[i].kind = "Having" /\ query[j].kind = "Having") =>
                  /\ Aligned(Having_bitand(query[i].f, query[j].f).inner)
                  /\ Aligned(Having_add(query[i].f, query[j].f).inner)
                  /\ Aligned(Having_bitor(query[i].f, query[j].f).inner)
                  /\ Aligned(Having_not(query[i].f).inner)

\* a built query of aligned fragments, one an OR composition, with markers
C1_Witness ==
    /\ pc = "built" /\ AllAligned
    /\ \E i \in DOMAIN query : query[i].kind = "Where" /\ query[i].f.op = "Or"
    /\ \E i \in DOMAIN query : query[i].kind = "Select"
    /\ count_of_markers(result.text) >= 3

(***************************************************************************)
(* C4  Clause kinds are rendered in the canonical order Select, From,      *)
(* Where, Having, Raw regardless of insertion order: a Query builds to the *)
(* same text and arguments as the Query holding its fragments sorted by    *)
(* kind (same-kind fragments keeping their relative order).                *)
(***************************************************************************)
OfKind(q, kind) == SelectSeq(q, LAMBDA f : f.kind = kind)

Canonical(q) ==
    OfKind(q, "Select") \o OfKind(q, "From") \o OfKind(q, "Where")
      \o OfKind(q, "Having") \o OfKind(q, "Raw")

C4_CanonicalOrder ==
    /\ build(query).text = build(Canonical(query)).text
    /\ build(query).args = build(Canonical(query)).args

(***************************************************************************)
(* C5  In a built text each of SELECT, FROM, WHERE, HAVING is emitted at   *)
(* most once; the first non-empty fragment of a kind is preceded by its    *)
(* keyword, every later one by `,` (Select, From) or ` AND ` (Where,       *)
(* Having); an Or-tagged Where/Having fragment is wrapped in parentheses.  *)
(***************************************************************************)
C5_KeywordOnce ==
    Built =>
      /\ result.text = ExpectedText(query)
      /\ \A kind \in {"Select", "From", "Where", "Having"} :
            Count(result.text, {Keyword(kind)}) <= 1

\* two rendered WHERE fragments, the later one an OR composition
C5_Witness ==
    /\ pc = "built"
    /\ \E i, j \in DOMAIN query :
          /\ i < j
          /\ query[i].kind = "Where" /\ query[j].kind = "Where"
          /\ ~is_empty(query[i])
          /\ query[j].f.op = "Or"
    /\ Count(result.text, {" WHERE "}) = 1
    /\ Count(result.text, {" AND "}) = 1

(***************************************************************************)
(* C6  Argument order matches marker emission order: for fragments each    *)
(* holding as many markers as arguments, the k-th `?` of the built text    *)
(* lies in the text of the fragment that supplied the k-th argument, and   *)
(* the arguments are the fragments' argument lists in text order.          *)
(***************************************************************************)
\* the fragment whose piece covers position p of the text
OwnerOfPosition(q, p) ==
    CHOOSE i \in DOMAIN q :
        /\ Len(ExpectedText(SubSeq(q, 1, i))) >= p
        /\ Len(ExpectedText(SubSeq(q, 1, i - 1))) < p

MarkerOwners(q, text) ==
    LET ms == offsets(text)
        nth(k) == CHOOSE p \in ms : Cardinality({r \in ms : r <= p}) = k
    IN  [k \in 1..Cardinality(ms) |-> OwnerOfPosition(q, nth(k))]

ArgOwners(q) ==
    Flatten([i \in DOMAIN q |->
                IF inner_of(q[i]).raw = <<>> THEN <<>>
                ELSE [k \in 1..Len(inner_of(q[i]).args) |-> i]])

Scenario1 ==
    Query_add_where(
      Query_add_where(
        Query_add_where(
          Query_add(select(<< <<"a,b,c">> >>), from(<< <<"foobar">> >>)),
          wh(<< <<"foo = 'bar'">> >>)),
        wh(<< <<"bar = ", "?">>, 1 >>)),
      Where_bitor(wh(<< <<"d = ", "?">>, 10 >>), wh(<< <<"e != ", "?">>, 20 >>)))

Scenario2 ==
    Query_add_where(
      Query_add_where(
        Query_add_where(
          Query_add(select(<< <<"*">> >>), from(<< <<"test">> >>)),
          wh(<< <<"a = ", "?">>, 1 >>)),
        wh(<< <<"b = ", "?">>, 2 >>)),
      Where_bitor(Where_bitor(wh(<< <<"c = ", "?">>, 3 >>), wh(<< <<"d = 4">> >>)),
                  wh(<< <<"e = ", "?">>, 4 >>)))

C6_ArgumentOrder ==
    /\ (Built /\ AllAligned) =>
          /\ result.args = ExpectedArgs(query)
          /\ MarkerOwners(query, result.text) = ArgOwners(query)
    /\ build(Scenario1).text =
          <<"SELECT ", "a,b,c", " FROM ", "foobar", " WHERE ", "foo = 'bar'",
            " AND ", "bar = ", "?", " AND ", "(", "d = ", "?", " OR ", "e != ", "?", ")">>
    /\ build(Scenario1).args = <<1, 10, 20>>
    /\ build(Scenario2).text =
          <<"SELECT ", "*", " FROM ", "test", " WHERE ", "a = ", "?",
            " AND ", "b = ", "?", " AND ", "(", "c = ", "?", " OR ", "d = 4",
            " OR ", "e = ", "?", ")">>
    /\ build(Scenario2).args = <<1, 2, 3, 4>>

\* three aligned fragments with different arguments, all rendered
C6_Witness ==
    /\ pc = "built" /\ AllAligned
    /\ Len(query) = 3
    /\ \A i \in DOMAIN query : inner_of(query[i]).args # <<>>
    /\ \A i, j \in DOMAIN query : i # j => inner_of(query[i]).args # inner_of(query[j]).args
    /\ Len(result.args) >= 4

(***************************************************************************)
(* C7  Empty IN policy: where_in / wh_in called with no values yields the  *)
(* predicate `1=0` tagged And with zero arguments, never `col IN ()`; the  *)
(* query built from it ends in ` WHERE 1=0` and has no arguments.          *)
(***************************************************************************)
C7_EmptyIn ==
    input.values = <<>> =>
      /\ pc = "expr" =>
            stack = <<[op |-> "And", inner |-> [raw |-> <<"1=0">>, args |-> <<>>]]>>
      /\ (pc = "built" /\ query[Len(query)].kind = "Where") =>
            /\ IsSuffix(<<" WHERE ", "1=0">>, result.text)
            /\ Count(result.text, {" IN ("}) = 0
            /\ result.args = <<>>

\* the query holding where_in(column, []) has been built
C7_Witness ==
    /\ pc = "built"
    /\ input.values = <<>>
    /\ query[Len(query)].kind = "Where"

(***************************************************************************)
(* C8  For n >= 1 values the IN helpers render `<column> IN (`, n markers  *)
(* separated by single commas with no trailing comma, then `)`, and carry  *)
(* the n values as arguments in the given order.                           *)
(***************************************************************************)
InList(column, text, n) ==
    /\ Len(text) = 2 * n + 2
    /\ text[1] = column
    /\ text[2] = " IN ("
    /\ text[Len(text)] = ")"
    /\ \A k \in 1..(2 * n - 1) : text[2 + k] = IF k % 2 = 1 THEN "?" ELSE ","

C8_InList ==
    Len(input.values) >= 1 =>
      /\ pc = "expr" =>
            /\ InList(input.column, stack[1].inner.raw, Len(input.values))
            /\ stack[1].inner.args = input.values
            /\ stack[1].op = "And"
      /\ pc \in {"query", "built"} =>
            LET b == inner_of(query[Len(query)])
            IN  /\ InList(input.column, b.raw, Len(input.values))
                /\ b.args = input.values

\* where_in was called with three values, not all the same
C8_Witness ==
    /\ pc = "expr"
    /\ Len(input.values) = 3
    /\ input.values[1] # input.values[3]
    /\ Count(stack[1].inner.raw, {","}) = 2

(***************************************************************************)
(* C9  Indexed rendering replaces the n markers, left to right, by $1..$n; *)
(* QuestionMark leaves them as `?`; both formats return the same arguments *)
(* in the same order and the same text apart from the markers.             *)
(***************************************************************************)
C9_IndexedRendering ==
    /\ pc = "rendered" =>
          LET ms == offsets(result.text)
              n == Cardinality(ms)
              nth(k) == CHOOSE p \in ms : Cardinality({r \in ms : r <= p}) = k
          IN  /\ rendered.args = result.args
              /\ Len(rendered.text) = Len(result.text)
              /\ \A i \in DOMAIN result.text \ ms : rendered.text[i] = result.text[i]
              /\ rendered.format = "QuestionMark" => rendered.text = result.text
              /\ rendered.format = "Indexed" =>
                    /\ Count(rendered.text, {MARK}) = 0
                    /\ \A k \in 1..n : rendered.text[nth(k)] = "$" \o ToString(k)
    /\ render(build(Scenario1).text, "Indexed") =
          <<"SELECT ", "a,b,c", " FROM ", "foobar", " WHERE ", "foo = 'bar'",
            " AND ", "bar = ", "$1", " AND ", "(", "d = ", "$2", " OR ", "e != ", "$3", ")">>

\* a text with at least three markers was rendered in the Indexed format
C9_Witness ==
    /\ pc = "rendered"
    /\ rendered.format = "Indexed"
    /\ count_of_markers(result.text) >= 3
    /\ Count(rendered.text, {"$3"}) = 1

(***************************************************************************)
(* C10  Concatenation is associative on text and arguments: for buffers    *)
(* a, b, c, (a + b) + c = a + (b + c); for Queries p, q, r, (p + q) + r    *)
(* and p + (q + r) build to the same text and arguments.                   *)
(***************************************************************************)
C10_Associative ==
    /\ \A i, j, k \in DOMAIN query :
          LET a == inner_of(query[i])
              b == inner_of(query[j])
              c == inner_of(query[k])
          IN  ArgString_add(ArgString_add(a, b), c) = ArgString_add(a, ArgString_add(b, c))
    /\ \A m, n \in DOMAIN query :
          (m < n /\ n < Len(query)) =>
             LET p == SubSeq(query, 1, m)
                 q == SubSeq(query, m + 1, n)
                 r == SubSeq(query, n + 1, Len(query))
                 left == Query_add(Query_add(p, q), r)
                 right == Query_add(p, Query_add(q, r))
             IN  /\ left = right
                 /\ left = query
                 /\ build(left) = build(right)

\* a Query of three rendered fragments with different arguments
C10_Witness ==
    /\ pc = "query"
    /\ Len(query) = 3
    /\ \A i \in DOMAIN query : ~is_empty(query[i])
    /\ \A i, j \in DOMAIN query :
          i # j => inner_of(query[i]).args # inner_of(query[j]).args

(***************************************************************************)
(* C11  Joining two buffers with a glue string yields the left text, the   *)
(* glue, the right text, and the left arguments followed by the right      *)
(* arguments; the glue adds no argument and no marker, so two operands     *)
(* with as many markers as arguments give a result with as many markers as *)
(* arguments.  wrapped() adds the two parentheses and nothing else.        *)
(***************************************************************************)
JoinStep == Len(stack') = Len(stack) - 1

C11_GlueConcat ==
    [][JoinStep =>
         LET r == stack'[Len(stack')].inner
             ls == {Lhs.inner, wrapped(Lhs.inner)}
             rs == {Rhs.inner, wrapped(Rhs.inner)}
         IN  /\ \E g \in {" AND ", " OR "} : \E a \in ls : \E b \in rs :
                   r.raw = a.raw \o <<g>> \o b.raw
             /\ r.args = Lhs.inner.args \o Rhs.inner.args
             /\ count_of_markers(r.raw) =
                   count_of_markers(Lhs.inner.raw) + count_of_markers(Rhs.inner.raw)
             /\ \A a \in ls \cup rs :
                   /\ wrapped(a).raw = <<"(">> \o a.raw \o <<")">>
                   /\ wrapped(a).args = a.args
             /\ (Aligned(Lhs.inner) /\ Aligned(Rhs.inner)) => Aligned(r)]_vars

\* a OR b OR c, three leaves glued in order with their three arguments
C11_Witness ==
    /\ stack # <<>>
    /\ RhsTree.op = "OR" /\ Len(RhsTree.kids) = 3
    /\ \A k \in 1..3 : RhsTree.kids[k].op = "ATOM"
    /\ Rhs.inner.args = <<1, 20, 21>>
    /\ Count(Rhs.inner.raw, {" OR "}) = 2

(***************************************************************************)
(* C15  As stated: when two expressions are joined with `|`, a side that   *)
(* is an AND composition is wrapped in parentheses, a side tagged Or is    *)
(* left bare, the texts are joined with " OR " and the result is tagged    *)
(* Or.  (A side that is a single leaf or a negation may be rendered either *)
(* way.)                                                                   *)
(***************************************************************************)
OrStep ==
    /\ Len(stack') = Len(stack) - 1
    /\ tree'[Len(tree')].op = "OR"

OrSide(e, t) ==
    IF e.op = "Or" THEN {e.inner.raw}
    ELSE IF t.op = "AND" THEN {<<"(">> \o e.inner.raw \o <<")">>}
    ELSE {e.inner.raw, <<"(">> \o e.inner.raw \o <<")">>}

NotStep ==
    /\ Len(stack') = Len(stack)
    /\ stack' # stack

C18_NotFrame ==
    [][NotStep =>
         LET r == stack'[Len(stack')]
         IN  /\ r.inner.raw = <<"NOT (">> \o Rhs.inner.raw \o <<")">>
             /\ r.inner.args = Rhs.inner.args
             /\ r.op = Rhs.op
             /\ Aligned(Rhs.inner) => Aligned(r.inner)
             /\ SubSeq(stack', 1, Len(stack) - 1) = SubSeq(stack, 1, Len(stack) - 1)]_vars

\* NOT (a OR b): an Or-tagged expression with arguments was negated
C18_Witness ==
    /\ stack # <<>>
    /\ RhsTree.op = "NOT" /\ RhsTree.kids[1].op = "OR"
    /\ Rhs.op = "Or"
    /\ Rhs.inner.raw[1] = "NOT ("
    /\ Len(Rhs.inner.args) >= 3

(***************************************************************************)
(* C12  A fragment whose text is empty is skipped by build: it adds no     *)
(* text, separator, keyword or argument and does not mark its kind as      *)
(* visited, so the next non-empty fragment of the kind still gets the      *)
(* keyword; build(q + empty) = build(q), and a Query builds as the Query   *)
(* without its empty fragments.                                            *)
(***************************************************************************)
EmptyFragments ==
    { Fragment("Select", into(<< <<>> >>)),
      Fragment("From", into(<< <<>>, 7 >>)),
      Fragment("Where", where(<< <<>>, 7 >>)),
      Fragment("Having", having(<< <<>> >>)),
      Fragment("Raw", into(<< <<>>, 7 >>)) }

NonEmpty(q) == SelectSeq(q, LAMBDA f : ~is_empty(f))

C12_EmptySkipped ==
    /\ pc = "query" =>
          /\ build(query) = build(NonEmpty(query))
          /\ \A e \in EmptyFragments : build(Query_add(query, <<e>>)) = build(query)
    /\ Built =>
          /\ result = build(NonEmpty(query))
          /\ \A i \in DOMAIN query :
                (inner_of(query[i]).raw # <<>> /\ query[i].kind # "Raw") =>
                   Count(result.text, {Keyword(query[i].kind)}) = 1
          /\ Len(result.args) =
                Len(Flatten([i \in DOMAIN query |->
                       IF inner_of(query[i]).raw = <<>> THEN <<>>
                       ELSE inner_of(query[i]).args]))
          /\ (\A i \in DOMAIN query : inner_of(query[i]).raw = <<>>) =>
                result.text = <<>> /\ result.args = <<>>

\* an empty WHERE fragment carrying an argument, then a non-empty one: built
C12_Witness ==
    /\ pc = "built"
    /\ \E i, j \in DOMAIN query :
          /\ i < j
          /\ query[i].kind = "Where" /\ query[j].kind = "Where"
          /\ query[i].f.inner.raw = <<>> /\ query[i].f.inner.args # <<>>
          /\ query[j].f.inner.raw # <<>>
    /\ Count(result.text, {" WHERE "}) = 1
    /\ Count(result.text, {" AND "}) = 0

(***************************************************************************)
(* C14  Building never fails: for every sequence of fragments (empty       *)
(* ones, markers not matching arguments, repeated and oddly ordered kinds) *)
(* build can be called and returns Ok with a text and an argument list.    *)
(***************************************************************************)
C14_BuildTotal ==
    /\ pc = "query" => (ENABLED Build /\ build(query).ok)
    /\ Built =>
          LET r == build(query)
          IN  /\ result.ok
              /\ result.text = r.text
              /\ result.args = r.args

\* a built Query with HAVING before SELECT and markers not matching arguments
C14_Witness ==
    /\ pc = "built"
    /\ result.ok
    /\ ~AllAligned
    /\ count_of_markers(result.text) # Len(result.args)
    /\ \E i, j \in DOMAIN query :
          i < j /\ query[i].kind = "Having" /\ query[j].kind = "Select"

(***************************************************************************)
(* C16  As stated: raw_in called with no values does not render an empty   *)
(* `IN ()`; like where_in it produces `1=0` with zero arguments.           *)
(***************************************************************************)
C16_RawInEmpty ==
    (input.values = <<>> /\ pc \in {"query", "built"}
       /\ query[Len(query)].kind = "Raw") =>
          /\ query[Len(query)].f.raw = <<"1=0">>
          /\ query[Len(query)].f.args = <<>>
          /\ pc = "built" => Count(result.text, {" IN ("}) = 0

(***************************************************************************)
(* C17  Adding several non-empty WHERE (or HAVING) fragments one after the *)
(* other builds to the same text and arguments as adding their             *)
(* &-composition in their place, with the same parentheses around the      *)
(* Or-tagged ones.                                                         *)
(***************************************************************************)
RECURSIVE WhereAll(_)
WhereAll(fs) ==
    IF Len(fs) = 1 THEN fs[1].f
    ELSE Where_bitand(WhereAll(SubSeq(fs, 1, Len(fs) - 1)), fs[Len(fs)].f)

RECURSIVE HavingAll(_)
HavingAll(fs) ==
    IF Len(fs) = 1 THEN fs[1].f
    ELSE Having_bitand(HavingAll(SubSeq(fs, 1, Len(fs) - 1)), fs[Len(fs)].f)

Run(q, i, j, kind) ==
    /\ i < j
    /\ \A k \in i..j : q[k].kind = kind /\ ~is_empty(q[k])

Composed(q, i, j, frag) ==
    SubSeq(q, 1, i - 1) \o <<frag>> \o SubSeq(q, j + 1, Len(q))

SameBuild(p, q) ==
    LET a == build(p)
        b == build(q)
    IN  a.text = b.text /\ a.args = b.args

C17_RepeatedIsAnd ==
    pc = "query" =>
      /\ \A i, j \in DOMAIN query :
            /\ Run(query, i, j, "Where") =>
                  SameBuild(query,
                            Composed(query, i, j,
                                     Fragment("Where", WhereAll(SubSeq(query, i, j)))))
            /\ Run(query, i, j, "Having") =>
                  SameBuild(query,
                            Composed(query, i, j,
                                     Fragment("Having", HavingAll(SubSeq(query, i, j)))))
      /\ Len(query) < MaxFrags =>
            \A w1, w2, w3 \in {w \in WherePool : w.inner.raw # <<>>} :
               /\ SameBuild(Query_add_where(Query_add_where(Query_add_where(query, w1), w2), w3),
                            Query_add_where(query, Where_bitand(Where_bitand(w1, w2), w3)))
               /\ SameBuild(Query_add_where(Query_add_where(Query_add_where(query, w1), w2), w3),
                            Query_add_where(query, Where_add(Where_add(w1, w2), w3)))

\* q + (a OR b) + c: two non-empty WHERE fragments in a row, the first Or-tagged
C17_Witness ==
    /\ pc = "query"
    /\ Len(query) = 3
    /\ Run(query, 2, 3, "Where")
    /\ query[2].f.op = "Or" /\ query[3].f.op = "And"
    /\ Count(build(query).text, {"("}) >= 1

(***************************************************************************)
(* Shared vocabulary of the staged-builder claims                          *)
(***************************************************************************)
CallStep == Len(stack') = Len(stack) + 1

LastCall == stack'[Len(stack')]

\* what the call appended to the builder's text
Appended == SubSeq(query'.inner.raw, Len(query.inner.raw) + 1, Len(query'.inner.raw))

Position(text, tok) == CHOOSE i \in DOMAIN text : text[i] = tok

\* the text after the WHERE keyword
Condition(text) == SubSeq(text, Position(text, " WHERE ") + 1, Len(text))

(***************************************************************************)
(* C13  Stage progression is monotone along Initial, Where, Having,        *)
(* Suffix: no call moves a builder to an earlier stage, `+` on a Where or  *)
(* Having builder moves it to Suffix, and Suffix is absorbing: the only    *)
(* call taken from Suffix is `+`, which stays in Suffix; wh, and, or and   *)
(* having are never taken from it.                                         *)
(***************************************************************************)
C13_StageMonotone ==
    [][/\ StageRank(query'.stage) >= StageRank(query.stage)
       /\ CallStep =>
             /\ (LastCall = "add" /\ query.stage \in {"Where", "Having"}) =>
                   query'.stage = "Suffix"
             /\ query.stage = "Suffix" =>
                   /\ LastCall = "add"
                   /\ query'.stage = "Suffix"
                   /\ Appended[1] = " "
                   /\ Appended \in {<<" ">> \o into(l).raw : l \in StagedLeaves}]_vars

\* wh, then `+` twice: the builder went to Suffix and stayed there
C13_Witness ==
    /\ pc = "staged"
    /\ stack = <<"wh", "add", "add">>
    /\ query.stage = "Suffix"
    /\ Count(query.inner.raw, {" "}) = 2

(***************************************************************************)
(* C19  wh is enabled only in stage Initial and having only in stages      *)
(* Initial and Where; hence the builder inserts ` WHERE ` at most once and *)
(* ` HAVING ` at most once, once per call of wh / having, and when both    *)
(* are present ` WHERE ` comes first.                                      *)
(***************************************************************************)
C19_WhereHavingOnce ==
    LET text == query.inner.raw
    IN  /\ ENABLED StagedWh => query.stage = "Initial"
        /\ ENABLED StagedHaving => query.stage \in {"Initial", "Where"}
        /\ Count(text, {" WHERE "}) <= 1
        /\ Count(text, {" HAVING "}) <= 1
        /\ Count(text, {" WHERE "}) = Count(stack, {"wh"})
        /\ Count(text, {" HAVING "}) = Count(stack, {"having"})
        /\ (Count(text, {" WHERE "}) = 1 /\ Count(text, {" HAVING "}) = 1) =>
              Position(text, " WHERE ") < Position(text, " HAVING ")
        /\ pc = "rendered" =>
              /\ Count(rendered.text, {" WHERE "}) <= 1
              /\ Count(rendered.text, {" HAVING "}) <= 1

\* wh then having, built: both keywords are in the statement
C19_Witness ==
    /\ pc = "rendered"
    /\ Count(stack, {"wh"}) = 1 /\ Count(stack, {"having"}) = 1
    /\ Count(rendered.text, {" WHERE "}) = 1
    /\ Count(rendered.text, {" HAVING "}) = 1

C21_TagInvariant ==
    /\ \A i \in DOMAIN stack :
          /\ stack[i].op = "And" => TopLevel(stack[i].inner.raw, " OR ") = {}
          /\ TopLevel(stack[i].inner.raw, " OR ") # {} => stack[i].op = "Or"
    /\ (stack # <<>> /\ Rhs.op = "And") =>
          LET f == Fragment(ty, Rhs)
              first == build(<<f>>).text
              later == build(<<Fragment(ty, [op |-> "And", inner |-> From(<<"x">>)]), f>>).text
          IN  /\ ParseOr(Tail(first)) = RhsTree
              /\ ParseOr(Tail(later)) = Node("AND", <<Atom(<<"x">>), RhsTree>>)

\* a leaf below, (b OR c) AND d on top: tagged And, its OR inside parentheses
C21_Witness ==
    /\ Len(stack) = 2
    /\ Rhs.op = "And"
    /\ RhsTree.op = "AND" /\ RhsTree.kids[1].op = "OR"
    /\ Count(Rhs.inner.raw, {" OR "}) = 1
    /\ TopLevel(Rhs.inner.raw, " OR ") = {}

(***************************************************************************)
(* C22  Appending is prefix-monotone: whenever a fragment of any kind is   *)
(* added to a Query, the text the longer Query builds to begins with the   *)
(* text the shorter one builds to, and likewise the arguments.             *)
(***************************************************************************)
AddStep == Len(query') = Len(query) + 1

C22_PrefixMonotone ==
    [][AddStep =>
         LET old == build(query)
             new == build(query')
         IN  /\ SubSeq(query', 1, Len(query)) = query
             /\ IsPrefix(old.text, new.text)
             /\ IsPrefix(old.args, new.args)]_vars

\* a second non-empty SELECT fragment was added after a FROM fragment
C22_Witness ==
    /\ pc = "query"
    /\ Len(query) = 3
    /\ query[1].kind = "Select" /\ query[2].kind = "From" /\ query[3].kind = "Select"
    /\ \A i \in DOMAIN query : ~is_empty(query[i])
    /\ Len(build(query).args) = 4

(***************************************************************************)
(* C23  As stated: encoding any integer variant of Type for PostgreSQL     *)
(* preserves its numeric value over the whole range of the variant; no     *)
(* value is truncated or wrapped by a narrowing cast.                      *)
(***************************************************************************)
\* a number written at a width that holds every value compared
Number(bytes, signed) == as_cast(bytes, signed, 9)

C23_ValuePreserved ==
    pc = "sent" =>
        Number(rendered.args[1].bytes, rendered.args[1].signed)
          = Number(input.bytes, Signed(input.variant))

====
